---- MODULE Spec2Model ----
(***************************************************************************)
(* goWs: a websocket connection (WsConnection) with a read task, a write   *)
(* task, two bounded queues, a one-shot close channel and a heartbeat.     *)
(* The model follows src/conn.go.  A step of a process runs from one       *)
(* blocking point of the Go code (a select, a ReadMessage, a mutex Lock)   *)
(* to the next.                                                            *)
(***************************************************************************)
EXTENDS Integers, Sequences, FiniteSets, TLC

\* ------------------------------------------------------------ constants
ToAll == "All"
ToGroup == "Group"
ToConn == "Conn"
ErrWsConnClose == "websocket connection closed"
ErrIdEmpty == "id is null"
\* the error a Collection's Get gives for an id it does not hold
ErrNotExist == "id is not exist"
TextMessage == 1

\* ------------------------------------------------------------ bounds
\* capacity of inChan and of outChan (1024 in NewWsConnection, scaled down)
QueueCap == 2
\* frames one transport delivers to ReadMessage
MaxFrames == 3
\* Write calls the application issues on one connection
MaxWrites == 2
\* Close calls the application issues on one connection
MaxCloseCalls == 2
\* Open calls the application issues on one connection in the reopening runs
MaxOpens == 2
\* the heartbeater's GetHeartbeatTime(), in clock ticks
HeartbeatTime == 1
\* the clock stops advancing here
MaxTime == 2 * HeartbeatTime + 1

\* ------------------------------------------------------------ universe
Conns == {"a", "b"}
\* the connections the application drives in the single-connection runs
Solo == {"a"}
\* application goroutines calling the public methods of one connection:
\* the request handler opens, receives, writes and closes; a second
\* goroutine writes and closes
Threads == {"handler", "pusher"}
Methods(t) ==
  IF t = "handler" THEN {"Open", "Receive", "Write", "Close"} ELSE {"Write", "Close"}
Tasks == {"readLoop", "writeLoop"}
Procs == Threads \cup Tasks
NoTimer == -1

VARIABLES
  load,              \* what the peer and the application do in this run
  now,               \* the clock read by time.Now()
  col,               \* the Collection: ids registered by Set and not yet Del'ed
  wsConn,            \* wc.wsConn: "nil", or the socket: "open", "broken", "closed"
  inChan,            \* wc.inChan
  outChan,           \* wc.outChan
  closeChan,         \* wc.closeChan: "open" or "closed"
  isClosed,          \* wc.isClosed
  mutex,             \* wc.mutex: "free" or the process holding it
  lastHeartbeatTime, \* wc.lastHeartbeatTime
  timer,             \* writeLoop's timer: the time it is due, or NoTimer
  pc,                \* where each process of each connection stands
  op,                \* the public method a thread is inside
  wmsg,              \* the argument of a thread's pending Write
  late,              \* the thread's pending call started after a Close had returned
  hist,              \* counters of what has happened on each connection; owed
                     \* counts the messages that were on outChan when Close
                     \* was first called and are not dispatched yet
  enq,               \* messages accepted by outChan, in order
  dispatched,        \* messages handed to msgDispatch, in order
  framesRead,        \* frames returned by ReadMessage, in order
  received,          \* messages returned by Receive, in order
  wire               \* frames written to each transport, in order

connVars == <<wsConn, inChan, outChan, closeChan, isClosed, mutex, lastHeartbeatTime, timer>>
procVars == <<pc, op, wmsg, late>>
histVars == <<hist, enq, dispatched, framesRead, received, wire>>
vars == <<load, now, col, connVars, procVars, histVars>>

\* ------------------------------------------------------------ messages
WsMessage(tt, to, mt, d) == [ToType |-> tt, To |-> to, MessageType |-> mt, Data |-> d]

\* a thread that is not inside Write holds no message
NoMsg == WsMessage("", "", 0, "")

\* HeartBeater, as the application supplies it
IsPingMsg(msg) == msg = "ping"
GetPongMsg == "pong"
GetHeartbeatTime == HeartbeatTime

GetWsConnId(c) == c

\* the reply isPing writes for a ping
PongMessage(c) == WsMessage(ToConn, GetWsConnId(c), TextMessage, GetPongMsg)

\* the message readLoop builds from a frame: To is the zero MsgTo
InMessage(f) == WsMessage("", "", f.MessageType, f.Data)

\* the k-th frame the peer sends is a ping or a payload of its own
Frames(k) == {[MessageType |-> TextMessage, Data |-> d] : d \in {"ping", ToString(k)}}

\* the k-th message the application writes has a payload of its own and
\* is addressed to the connection itself
AppMsgs(c, k) == { WsMessage(ToConn, c, TextMessage, ToString(k)) }

Last(s) == s[Len(s)]

IsPrefix(s, t) == Len(s) <= Len(t) /\ s = SubSeq(t, 1, Len(s))

\* ------------------------------------------------------------ initial state
\* the runs explored: how many frames the peer sends on a connection, how
\* many Write, Close and Open calls the application makes on it, and what
\* error the application's Collection returns from Get with a nil connection
\* for an id it does not hold (an error, or none)
Loads ==
  { [frames |-> MaxFrames, writes |-> 0, closes |-> 1, opens |-> 1,
     absent |-> ErrNotExist],
    [frames |-> 1, writes |-> MaxWrites, closes |-> 1, opens |-> 1,
     absent |-> ErrNotExist],
    [frames |-> 1, writes |-> 1, closes |-> MaxCloseCalls, opens |-> 1,
     absent |-> "nil"] }

HistInit ==
  [closes |-> 0, wsCloses |-> 0, dels |-> 0, rcCalls |-> 0, closeCalls |-> 0,
   writeCalls |-> 0, owed |-> 0, lastInboundAt |-> 0, opens |-> 0]

\* NewWsConnection, for every connection; the clock has moved on since
\* the constructor read it into lastHeartbeatTime.
Created ==
  /\ now = 1
  /\ col = {}
  /\ wsConn = [c \in Conns |-> "nil"]
  /\ inChan = [c \in Conns |-> <<>>]
  /\ outChan = [c \in Conns |-> <<>>]
  /\ closeChan = [c \in Conns |-> "open"]
  /\ isClosed = [c \in Conns |-> FALSE]
  /\ mutex = [c \in Conns |-> "free"]
  /\ lastHeartbeatTime = [c \in Conns |-> 0]
  /\ timer = [c \in Conns |-> NoTimer]
  /\ pc = [c \in Conns |-> [p \in Procs |-> IF p \in Threads THEN "idle" ELSE "none"]]
  /\ op = [c \in Conns |-> [t \in Threads |-> "none"]]
  /\ wmsg = [c \in Conns |-> [t \in Threads |-> NoMsg]]
  /\ late = [c \in Conns |-> [t \in Threads |-> FALSE]]
  /\ hist = [c \in Conns |-> HistInit]
  /\ enq = [c \in Conns |-> <<>>]
  /\ dispatched = [c \in Conns |-> <<>>]
  /\ framesRead = [c \in Conns |-> <<>>]
  /\ received = [c \in Conns |-> <<>>]
  /\ wire = [c \in Conns |-> <<>>]

Init ==
  /\ load \in Loads
  /\ Created

\* ------------------------------------------------------------ helpers
SetPc(c, p, v) == pc' = [pc EXCEPT ![c][p] = v]

Closed(c) == closeChan[c] = "closed"

\* some call of Close on c has returned: fewer threads are inside Close
\* than have called it
CloseDone(c) == hist[c].closeCalls > Cardinality({t \in Threads : op[c][t] = "Close"})

\* a thread starts a call of a public method
Call(c, t, m) ==
  /\ pc[c][t] = "idle"
  /\ m \in Methods(t)
  /\ op' = [op EXCEPT ![c][t] = m]
  /\ late' = [late EXCEPT ![c][t] = CloseDone(c)]

\* a call returns to the thread that made it
Return(c, t) ==
  /\ pc' = [pc EXCEPT ![c][t] = "idle"]
  /\ op' = [op EXCEPT ![c][t] = "none"]
  /\ wmsg' = [wmsg EXCEPT ![c][t] = NoMsg]
  /\ late' = [late EXCEPT ![c][t] = FALSE]

\* ------------------------------------------------------------ Collection
\* the ids the Collection holds are those Set stored and Del has not removed
GetAll == col
GroupMembers(g) == IF g = "g" THEN Conns ELSE {}
GetGroup(g) == col \cap GroupMembers(g)
Get(id) == IF id \in col THEN id ELSE "absent"
\* the error Get returns next to the connection
GetErr(id) == IF id \in col THEN "nil" ELSE load.absent

\* ------------------------------------------------------------ removeAndClose
\* removeAndClose is entered by process p, h being hist as the caller leaves
\* it: _ = wc.wsConn.Close() runs first. On a nil *websocket.Conn it is a nil
\* dereference: the panic ends the program, every goroutine with it
RcEnter(c, p, h) ==
  IF wsConn[c] = "nil"
    THEN /\ pc' = [d \in Conns |-> [q \in Procs |-> "panic"]]
         /\ hist' = [h EXCEPT ![c].rcCalls = @ + 1]
         /\ UNCHANGED wsConn
    ELSE /\ wsConn' = [wsConn EXCEPT ![c] = "closed"]
         /\ hist' = [h EXCEPT ![c].rcCalls = @ + 1, ![c].wsCloses = @ + 1]
         /\ SetPc(c, p, "rc_lock")

\* removeAndClose returns and the caller's next statement runs: Close
\* returns, Open returns the Set error, a task leaves its loop (writeLoop's
\* deferred timer.Stop runs)
RcReturn(c, p) ==
  IF p \in Threads
    THEN /\ Return(c, p)
         /\ UNCHANGED timer
    ELSE /\ SetPc(c, p, "done")
         /\ timer' = IF p = "writeLoop" THEN [timer EXCEPT ![c] = NoTimer] ELSE timer
         /\ UNCHANGED <<op, wmsg, late>>

\* return wc.collect.Del(wc.id), with the deferred Unlock
RcDel(c, p) ==
  /\ col' = col \ {c}
  /\ hist' = [hist EXCEPT ![c].dels = @ + 1]
  /\ mutex' = [mutex EXCEPT ![c] = "free"]
  /\ RcReturn(c, p)

\* RcLock with close(wc.closeChan) not guarded by isClosed
RcLock_Unguarded(c, p) ==
  /\ pc[c][p] = "rc_lock"
  /\ mutex[c] = "free"
  /\ mutex' = [mutex EXCEPT ![c] = p]
  /\ closeChan' = [closeChan EXCEPT ![c] = "closed"]
  /\ hist' = [hist EXCEPT ![c].closes = @ + 1]
  /\ SetPc(c, p, "rc_flag")
  /\ UNCHANGED <<load, now, col, timer, op, wmsg, late, wsConn, inChan, outChan,
                 isClosed, lastHeartbeatTime,
                 enq, dispatched, framesRead, received, wire>>

\* RcLock with the whole teardown guarded by isClosed: a second call returns
\* without calling Del
RcLock_DelOnce(c, p) ==
  /\ pc[c][p] = "rc_lock"
  /\ mutex[c] = "free"
  /\ IF ~isClosed[c]
       THEN /\ mutex' = [mutex EXCEPT ![c] = p]
            /\ closeChan' = [closeChan EXCEPT ![c] = "closed"]
            /\ hist' = [hist EXCEPT ![c].closes = @ + 1]
            /\ SetPc(c, p, "rc_flag")
            /\ UNCHANGED <<col, timer, op, wmsg, late>>
       ELSE /\ RcReturn(c, p)
            /\ UNCHANGED <<closeChan, col, hist, mutex>>
  /\ UNCHANGED <<load, now, wsConn, inChan, outChan, isClosed, lastHeartbeatTime,
                 enq, dispatched, framesRead, received, wire>>

\* RcLock with close(wc.closeChan) under a sync.Once that all connections
\* share: it runs for the first connection closed and for no other
RcLock_SharedOnce(c, p) ==
  /\ pc[c][p] = "rc_lock"
  /\ mutex[c] = "free"
  /\ IF ~isClosed[c]
       THEN /\ mutex' = [mutex EXCEPT ![c] = p]
            /\ IF \A d \in Conns : hist[d].closes = 0
                 THEN /\ closeChan' = [closeChan EXCEPT ![c] = "closed"]
                      /\ hist' = [hist EXCEPT ![c].closes = @ + 1]
                 ELSE UNCHANGED <<closeChan, hist>>
            /\ SetPc(c, p, "rc_flag")
            /\ UNCHANGED <<col, timer, op, wmsg, late>>
       ELSE /\ RcDel(c, p)
            /\ UNCHANGED closeChan
  /\ UNCHANGED <<load, now, wsConn, inChan, outChan, isClosed, lastHeartbeatTime,
                 enq, dispatched, framesRead, received, wire>>

\* wc.mutex.Lock(); if !wc.isClosed { close(wc.closeChan) ...
\* with isClosed already set, the rest of the function runs through
RcLock(c, p) ==
  /\ pc[c][p] = "rc_lock"
  /\ mutex[c] = "free"
  /\ IF ~isClosed[c]
       THEN /\ mutex' = [mutex EXCEPT ![c] = p]
            /\ closeChan' = [closeChan EXCEPT ![c] = "closed"]
            /\ hist' = [hist EXCEPT ![c].closes = @ + 1]
            /\ SetPc(c, p, "rc_flag")
            /\ UNCHANGED <<col, timer, op, wmsg, late>>
       ELSE /\ RcDel(c, p)
            /\ UNCHANGED closeChan
  /\ UNCHANGED <<load, now, wsConn, inChan, outChan, isClosed, lastHeartbeatTime,
                 enq, dispatched, framesRead, received, wire>>

\* variant: the function returns without setting wc.isClosed
RcSetFlag_FlagNotSet(c, p) ==
  /\ pc[c][p] = "rc_flag"
  /\ RcDel(c, p)
  /\ UNCHANGED <<load, now, wsConn, inChan, outChan, closeChan, isClosed,
                 lastHeartbeatTime, enq, dispatched, framesRead, received, wire>>

\* ... wc.isClosed = true }; return wc.collect.Del(wc.id)
RcSetFlag(c, p) ==
  /\ pc[c][p] = "rc_flag"
  /\ isClosed' = [isClosed EXCEPT ![c] = TRUE]
  /\ RcDel(c, p)
  /\ UNCHANGED <<load, now, wsConn, inChan, outChan, closeChan, lastHeartbeatTime,
                 enq, dispatched, framesRead, received, wire>>

removeAndClose(c, p) ==
  \/ RcLock(c, p)
  \/ RcSetFlag(c, p)

\* ------------------------------------------------------------ Close
\* a thread calls Close
Close(c, t) ==
  /\ Call(c, t, "Close")
  /\ hist[c].closeCalls < load.closes
  /\ RcEnter(c, t, [hist EXCEPT ![c].closeCalls = @ + 1,
                                ![c].owed = IF hist[c].closeCalls = 0
                                              THEN Len(outChan[c]) ELSE @])
  /\ UNCHANGED <<load, now, col, inChan, outChan, closeChan, isClosed, mutex,
                 lastHeartbeatTime, timer, wmsg,
                 enq, dispatched, framesRead, received, wire>>

\* ------------------------------------------------------------ Open
\* the application calls Open as often as the run allows, and not while
\* the tasks of an earlier Open are running
CanOpen(c) ==
  /\ hist[c].opens < load.opens
  /\ \A k \in Tasks : pc[c][k] \in {"none", "done"}

\* variant: a failed Set makes Open return without tearing anything down
OpenSetFails_NoTeardown(c, t) ==
  /\ pc[c][t] = "open_set"
  /\ Return(c, t)
  /\ UNCHANGED <<load, now, col, connVars, wmsg, histVars>>

\* upgrade.Upgrade fails: Open returns the error
OpenUpgradeFails(c, t) ==
  /\ pc[c][t] = "idle"
  /\ "Open" \in Methods(t)
  /\ CanOpen(c)
  /\ UNCHANGED vars

\* upgrade.Upgrade succeeds and setWsConn stores the socket
OpenUpgrade(c, t) ==
  /\ Call(c, t, "Open")
  /\ CanOpen(c)
  /\ wsConn' = [wsConn EXCEPT ![c] = "open"]
  /\ SetPc(c, t, "open_set")
  /\ hist' = [hist EXCEPT ![c].opens = @ + 1]
  /\ UNCHANGED <<load, now, col, inChan, outChan, closeChan, isClosed, mutex,
                 lastHeartbeatTime, timer, wmsg,
                 enq, dispatched, framesRead, received, wire>>

\* wc.collect.Set succeeds: both loops start, writeLoop arms its timer
OpenSetOk(c, t) ==
  /\ pc[c][t] = "open_set"
  /\ col' = col \cup {c}
  /\ pc' = [pc EXCEPT ![c][t] = "idle",
                      ![c]["readLoop"] = "read",
                      ![c]["writeLoop"] = "select"]
  /\ op' = [op EXCEPT ![c][t] = "none"]
  /\ late' = [late EXCEPT ![c][t] = FALSE]
  /\ timer' = [timer EXCEPT ![c] = now + GetHeartbeatTime]
  /\ hist' = [hist EXCEPT ![c].lastInboundAt = now]
  /\ UNCHANGED <<load, now, wsConn, inChan, outChan, closeChan, isClosed, mutex,
                 lastHeartbeatTime, wmsg,
                 enq, dispatched, framesRead, received, wire>>

\* wc.collect.Set fails: Open tears the connection down
OpenSetFails(c, t) ==
  /\ pc[c][t] = "open_set"
  /\ RcEnter(c, t, hist)
  /\ UNCHANGED <<load, now, col, inChan, outChan, closeChan, isClosed, mutex,
                 lastHeartbeatTime, timer, op, wmsg, late,
                 enq, dispatched, framesRead, received, wire>>

Open(c, t) ==
  \/ OpenUpgradeFails(c, t)
  \/ OpenUpgrade(c, t)
  \/ OpenSetOk(c, t)
  \/ OpenSetFails(c, t)

\* ------------------------------------------------------------ Receive
\* a thread calls Receive and reaches the select
ReceiveCall(c, t) ==
  /\ Call(c, t, "Receive")
  /\ SetPc(c, t, "Receive")
  /\ UNCHANGED <<load, now, col, connVars, wmsg, histVars>>

\* case msg = <-wc.inChan
ReceiveMsg(c, t) ==
  /\ pc[c][t] = "Receive"
  /\ inChan[c] # <<>>
  /\ inChan' = [inChan EXCEPT ![c] = Tail(@)]
  /\ received' = [received EXCEPT ![c] = Append(@, Head(inChan[c]))]
  /\ Return(c, t)
  /\ UNCHANGED <<load, now, col, wsConn, outChan, closeChan, isClosed, mutex,
                 lastHeartbeatTime, timer,
                 hist, enq, dispatched, framesRead, wire>>

\* variant: Receive's select has no closeChan case
ReceiveClosed_Never(c, t) ==
  /\ FALSE
  /\ UNCHANGED vars

\* case <-wc.closeChan: err = ErrWsConnClose
ReceiveClosed(c, t) ==
  /\ pc[c][t] = "Receive"
  /\ Closed(c)
  /\ Return(c, t)
  /\ UNCHANGED <<load, now, col, connVars, histVars>>

Receive(c, t) ==
  \/ ReceiveCall(c, t)
  \/ ReceiveMsg(c, t)
  \/ ReceiveClosed(c, t)

\* ------------------------------------------------------------ Write
\* the two cases of Write's select, for any caller
\* variant: outChan takes a message whatever it holds
WriteSend_Unbounded(c, msg) ==
  /\ outChan' = [outChan EXCEPT ![c] = Append(@, msg)]
  /\ enq' = [enq EXCEPT ![c] = Append(@, msg)]

\* case wc.outChan <- msg
WriteSend(c, msg) ==
  /\ Len(outChan[c]) < QueueCap
  /\ outChan' = [outChan EXCEPT ![c] = Append(@, msg)]
  /\ enq' = [enq EXCEPT ![c] = Append(@, msg)]

\* case <-wc.closeChan: err = ErrWsConnClose
WriteClosed(c) ==
  /\ Closed(c)
  /\ UNCHANGED <<outChan, enq>>

\* a thread calls Write and reaches the select
WriteCall(c, t) ==
  /\ Call(c, t, "Write")
  /\ hist[c].writeCalls < load.writes
  /\ SetPc(c, t, "Write")
  /\ \E msg \in AppMsgs(c, hist[c].writeCalls + 1) :
       wmsg' = [wmsg EXCEPT ![c][t] = msg]
  /\ hist' = [hist EXCEPT ![c].writeCalls = @ + 1]
  /\ UNCHANGED <<load, now, col, connVars, enq, dispatched, framesRead, received, wire>>

WriteReturnsNil(c, t) ==
  /\ pc[c][t] = "Write"
  /\ WriteSend(c, wmsg[c][t])
  /\ Return(c, t)
  /\ UNCHANGED <<load, now, col, wsConn, inChan, closeChan, isClosed, mutex,
                 lastHeartbeatTime, timer,
                 hist, dispatched, framesRead, received, wire>>

\* variant: a Write that finds closeChan closed puts its message on outChan
\* all the same
WriteReturnsClosed_Enqueues(c, t) ==
  /\ pc[c][t] = "Write"
  /\ Closed(c)
  /\ WriteSend_Unbounded(c, wmsg[c][t])
  /\ Return(c, t)
  /\ UNCHANGED <<load, now, col, wsConn, inChan, closeChan, isClosed, mutex,
                 lastHeartbeatTime, timer,
                 hist, dispatched, framesRead, received, wire>>

WriteReturnsClosed(c, t) ==
  /\ pc[c][t] = "Write"
  /\ WriteClosed(c)
  /\ Return(c, t)
  /\ UNCHANGED <<load, now, col, wsConn, inChan, closeChan, isClosed, mutex,
                 lastHeartbeatTime, timer,
                 hist, dispatched, framesRead, received, wire>>

Write(c, t) ==
  \/ WriteCall(c, t)
  \/ WriteReturnsNil(c, t)
  \/ WriteReturnsClosed(c, t)

\* ------------------------------------------------------------ heartbeat
\* wc.lastHeartbeatTime = time.Now()
keepAlive(c) == lastHeartbeatTime' = [lastHeartbeatTime EXCEPT ![c] = now]

\* variant: a connection is given up after two silent periods
isAlive_TwoPeriods(c) == ~(now - lastHeartbeatTime[c] > 2 * GetHeartbeatTime)

\* variant: a connection silent for exactly one period is given up
isAlive_NonStrict(c) == ~(now - lastHeartbeatTime[c] >= GetHeartbeatTime)

\* time.Now().Sub(wc.lastHeartbeatTime) > GetHeartbeatTime() seconds: not alive
isAlive(c) == ~(now - lastHeartbeatTime[c] > GetHeartbeatTime)

\* ------------------------------------------------------------ readLoop
\* variant: every frame read refreshes lastHeartbeatTime
ReadFrame_KeepAliveAlways(c) ==
  /\ pc[c]["readLoop"] = "read"
  /\ wsConn[c] = "open"
  /\ Len(framesRead[c]) < load.frames
  /\ \E f \in Frames(Len(framesRead[c]) + 1) :
       /\ framesRead' = [framesRead EXCEPT ![c] = Append(@, f)]
       /\ SetPc(c, "readLoop", IF IsPingMsg(f.Data) THEN "pong" ELSE "send")
  /\ keepAlive(c)
  /\ hist' = [hist EXCEPT ![c].lastInboundAt = now]
  /\ UNCHANGED <<load, now, col, wsConn, inChan, outChan, closeChan, isClosed, mutex,
                 timer, op, wmsg, late, enq, dispatched, received, wire>>

\* variant: readLoop forwards every frame without asking isPing
ReadFrame_NoFilter(c) ==
  /\ pc[c]["readLoop"] = "read"
  /\ wsConn[c] = "open"
  /\ Len(framesRead[c]) < load.frames
  /\ \E f \in Frames(Len(framesRead[c]) + 1) :
       framesRead' = [framesRead EXCEPT ![c] = Append(@, f)]
  /\ SetPc(c, "readLoop", "send")
  /\ hist' = [hist EXCEPT ![c].lastInboundAt = now]
  /\ UNCHANGED <<load, now, col, wsConn, inChan, outChan, closeChan, isClosed, mutex,
                 lastHeartbeatTime, timer, op, wmsg, late, enq, dispatched, received, wire>>

\* ReadMessage returns a frame; isPing classifies it and, for a ping,
\* keepAlive runs before the task reaches the select inside Write
ReadFrame(c) ==
  /\ pc[c]["readLoop"] = "read"
  /\ wsConn[c] = "open"
  /\ Len(framesRead[c]) < load.frames
  /\ \E f \in Frames(Len(framesRead[c]) + 1) :
       /\ framesRead' = [framesRead EXCEPT ![c] = Append(@, f)]
       /\ IF IsPingMsg(f.Data)
            THEN /\ keepAlive(c)
                 /\ SetPc(c, "readLoop", "pong")
            ELSE /\ UNCHANGED lastHeartbeatTime
                 /\ SetPc(c, "readLoop", "send")
  /\ hist' = [hist EXCEPT ![c].lastInboundAt = now]
  /\ UNCHANGED <<load, now, col, wsConn, inChan, outChan, closeChan, isClosed, mutex,
                 timer, op, wmsg, late, enq, dispatched, received, wire>>

\* variant: on a read error readLoop leaves its loop without removeAndClose
ReadError_NoTeardown(c) ==
  /\ pc[c]["readLoop"] = "read"
  /\ wsConn[c] \in {"broken", "closed"}
  /\ SetPc(c, "readLoop", "done")
  /\ UNCHANGED <<load, now, col, connVars, op, wmsg, late, histVars>>

\* ReadMessage returns an error (the socket was closed, or the peer is gone):
\* readLoop calls removeAndClose
ReadError(c) ==
  /\ pc[c]["readLoop"] = "read"
  /\ wsConn[c] \in {"broken", "closed"}
  /\ RcEnter(c, "readLoop", hist)
  /\ UNCHANGED <<load, now, col, inChan, outChan, closeChan, isClosed, mutex,
                 lastHeartbeatTime, timer, op, wmsg, late,
                 enq, dispatched, framesRead, received, wire>>

\* isPing's wc.Write(pong): the reply is accepted by outChan
PongSend(c) ==
  /\ pc[c]["readLoop"] = "pong"
  /\ WriteSend(c, PongMessage(c))
  /\ SetPc(c, "readLoop", "read")
  /\ UNCHANGED <<load, now, col, wsConn, inChan, closeChan, isClosed, mutex,
                 lastHeartbeatTime, timer, op, wmsg, late,
                 hist, dispatched, framesRead, received, wire>>

\* variant: the reply can be dropped whether or not closeChan is closed
PongClosed_DropAnytime(c) ==
  /\ pc[c]["readLoop"] = "pong"
  /\ SetPc(c, "readLoop", "read")
  /\ UNCHANGED <<load, now, col, connVars, op, wmsg, late, histVars>>

\* isPing's wc.Write(pong) returns ErrWsConnClose, which isPing drops
PongClosed(c) ==
  /\ pc[c]["readLoop"] = "pong"
  /\ WriteClosed(c)
  /\ SetPc(c, "readLoop", "read")
  /\ UNCHANGED <<load, now, col, wsConn, inChan, closeChan, isClosed, mutex,
                 lastHeartbeatTime, timer, op, wmsg, late,
                 hist, dispatched, framesRead, received, wire>>

\* case wc.inChan <- &WsMessage{MessageType, Data}
ReadSend(c) ==
  /\ pc[c]["readLoop"] = "send"
  /\ Len(inChan[c]) < QueueCap
  /\ inChan' = [inChan EXCEPT ![c] = Append(@, InMessage(Last(framesRead[c])))]
  /\ SetPc(c, "readLoop", "read")
  /\ UNCHANGED <<load, now, col, wsConn, outChan, closeChan, isClosed, mutex,
                 lastHeartbeatTime, timer, op, wmsg, late, histVars>>

\* variant: readLoop's send to inChan does not watch closeChan
ReadSendClosed_Never(c) ==
  /\ FALSE
  /\ UNCHANGED vars

\* case <-wc.closeChan: goto EXIT
ReadSendClosed(c) ==
  /\ pc[c]["readLoop"] = "send"
  /\ Closed(c)
  /\ SetPc(c, "readLoop", "done")
  /\ UNCHANGED <<load, now, col, connVars, op, wmsg, late, histVars>>

readLoop(c) ==
  \/ ReadFrame(c)
  \/ ReadError(c)
  \/ PongSend(c)
  \/ PongClosed(c)
  \/ ReadSend(c)
  \/ ReadSendClosed(c)
  \/ removeAndClose(c, "readLoop")

\* ------------------------------------------------------------ dispatch
\* variant: the loop over the connections ends at a failed write, met first
WriteMessage_StopAtFailure(rs, msg) ==
  IF \E r \in rs : wsConn[r] # "open"
    THEN UNCHANGED wire
    ELSE wire' = [r \in Conns |->
                    IF r \in rs
                      THEN Append(wire[r], [MessageType |-> msg.MessageType, Data |-> msg.Data])
                      ELSE wire[r]]

\* conn.wsConn.WriteMessage on every connection of rs: the frame goes out on
\* an open socket, and the call fails on a broken or closed one
WriteMessage(rs, msg) ==
  wire' = [r \in Conns |->
             IF r \in rs /\ wsConn[r] = "open"
               THEN Append(wire[r], [MessageType |-> msg.MessageType, Data |-> msg.Data])
               ELSE wire[r]]

\* variant: pushAll writes to every connection, registered or not
pushAll_Everyone(msg) == WriteMessage(Conns, msg)

pushAll(msg) == WriteMessage(GetAll, msg)

pushGroup(msg) == WriteMessage(GetGroup(msg.To), msg)

pushConn(msg) ==
  IF msg.To = ""
    THEN UNCHANGED wire
    ELSE IF Get(msg.To) = "absent"
           THEN UNCHANGED wire
           ELSE WriteMessage({Get(msg.To)}, msg)

\* variant: a message of unknown ToType is sent to everybody
msgDispatch_DefaultBroadcast(msg) ==
  CASE msg.ToType = ToGroup -> pushGroup(msg)
    [] msg.ToType = ToConn -> pushConn(msg)
    [] OTHER -> pushAll(msg)

msgDispatch(msg) ==
  CASE msg.ToType = ToAll -> pushAll(msg)
    [] msg.ToType = ToGroup -> pushGroup(msg)
    [] msg.ToType = ToConn -> pushConn(msg)
    [] OTHER -> UNCHANGED wire

\* what the push functions and msgDispatch return, and whom they reach
\* conn.wsConn.WriteMessage returns nil on an open socket and an error on a
\* broken or closed one
WriteMessageErr(r) == IF wsConn[r] = "open" THEN "nil" ELSE "write error"

\* the ids pushConn asks the Collection for
pushConnLookups(msg) == IF msg.To = "" THEN {} ELSE {msg.To}

\* variant: pushConn asks the Collection before it tests the id
pushConnErr_LookupFirst(msg) ==
  IF GetErr(msg.To) # "nil" \/ Get(msg.To) = "absent"
    THEN GetErr(msg.To)
    ELSE IF msg.To = "" THEN ErrIdEmpty ELSE WriteMessageErr(Get(msg.To))

\* pushConn's return value: err of Get is returned when err != nil or the
\* connection is nil
pushConnErr(msg) ==
  IF msg.To = ""
    THEN ErrIdEmpty
    ELSE IF GetErr(msg.To) # "nil" \/ Get(msg.To) = "absent"
           THEN GetErr(msg.To)
           ELSE WriteMessageErr(Get(msg.To))

\* pushAll and pushGroup skip a failed write and return nil after the loop
pushAllErr(msg) == "nil"
pushGroupErr(msg) == "nil"

\* msgDispatch drops what the push function returned and returns nil
msgDispatchErr(msg) == "nil"

\* the Collection methods msgDispatch(msg) calls
msgDispatchLookups(msg) ==
  CASE msg.ToType = ToAll -> {"GetAll"}
    [] msg.ToType = ToGroup -> {"GetGroup"}
    [] msg.ToType = ToConn -> IF pushConnLookups(msg) = {} THEN {} ELSE {"Get"}
    [] OTHER -> {}

\* the connections on which msgDispatch(msg) calls WriteMessage
Attempts(msg) ==
  CASE msg.ToType = ToAll -> GetAll
    [] msg.ToType = ToGroup -> GetGroup(msg.To)
    [] msg.ToType = ToConn ->
         IF msg.To = "" \/ Get(msg.To) = "absent" THEN {} ELSE {Get(msg.To)}
    [] OTHER -> {}

\* ------------------------------------------------------------ writeLoop variants
\* variant: the write task takes the newest message of outChan
WriteLoopRecv_Lifo(c) ==
  /\ pc[c]["writeLoop"] = "select"
  /\ outChan[c] # <<>>
  /\ outChan' = [outChan EXCEPT ![c] = SubSeq(@, 1, Len(@) - 1)]
  /\ dispatched' = [dispatched EXCEPT ![c] = Append(@, Last(outChan[c]))]
  /\ msgDispatch(Last(outChan[c]))
  /\ hist' = [hist EXCEPT ![c].owed = IF @ > 0 THEN @ - 1 ELSE 0]
  /\ UNCHANGED <<load, now, col, wsConn, inChan, closeChan, isClosed, mutex,
                 lastHeartbeatTime, timer, procVars,
                 enq, framesRead, received>>

\* variant: the write task takes a message off outChan and drops it
WriteLoopRecv_Drop(c) ==
  /\ pc[c]["writeLoop"] = "select"
  /\ outChan[c] # <<>>
  /\ outChan' = [outChan EXCEPT ![c] = Tail(@)]
  /\ hist' = [hist EXCEPT ![c].owed = IF @ > 0 THEN @ - 1 ELSE 0]
  /\ UNCHANGED <<load, now, col, wsConn, inChan, closeChan, isClosed, mutex,
                 lastHeartbeatTime, timer, procVars,
                 enq, dispatched, framesRead, received, wire>>

\* ------------------------------------------------------------ writeLoop
\* case msg := <-wc.outChan: msgDispatch(msg)
WriteLoopRecv(c) ==
  /\ pc[c]["writeLoop"] = "select"
  /\ outChan[c] # <<>>
  /\ outChan' = [outChan EXCEPT ![c] = Tail(@)]
  /\ dispatched' = [dispatched EXCEPT ![c] = Append(@, Head(outChan[c]))]
  /\ msgDispatch(Head(outChan[c]))
  /\ hist' = [hist EXCEPT ![c].owed = IF @ > 0 THEN @ - 1 ELSE 0]
  /\ UNCHANGED <<load, now, col, wsConn, inChan, closeChan, isClosed, mutex,
                 lastHeartbeatTime, timer, procVars,
                 enq, framesRead, received>>

TimerDue(c) == timer[c] # NoTimer /\ now >= timer[c]

\* variant: a timer fire on a silent connection ends writeLoop without
\* removeAndClose
WriteLoopTimer_ExitOnly(c) ==
  /\ pc[c]["writeLoop"] = "select"
  /\ TimerDue(c)
  /\ IF ~isAlive(c)
       THEN /\ SetPc(c, "writeLoop", "done")
            /\ timer' = [timer EXCEPT ![c] = NoTimer]
       ELSE /\ timer' = [timer EXCEPT ![c] = now + GetHeartbeatTime]
            /\ UNCHANGED pc
  /\ UNCHANGED <<load, now, col, wsConn, inChan, outChan, closeChan, isClosed, mutex,
                 lastHeartbeatTime, op, wmsg, late, histVars>>

\* case <-timer.C: removeAndClose when not alive, else timer.Reset
WriteLoopTimer(c) ==
  /\ pc[c]["writeLoop"] = "select"
  /\ TimerDue(c)
  /\ IF ~isAlive(c)
       THEN /\ RcEnter(c, "writeLoop", hist)
            /\ UNCHANGED timer
       ELSE /\ timer' = [timer EXCEPT ![c] = now + GetHeartbeatTime]
            /\ UNCHANGED <<pc, hist, wsConn>>
  /\ UNCHANGED <<load, now, col, inChan, outChan, closeChan, isClosed, mutex,
                 lastHeartbeatTime, op, wmsg, late,
                 enq, dispatched, framesRead, received, wire>>

\* case <-wc.closeChan: goto EXIT (the deferred timer.Stop runs)
WriteLoopClosed(c) ==
  /\ pc[c]["writeLoop"] = "select"
  /\ Closed(c)
  /\ SetPc(c, "writeLoop", "done")
  /\ timer' = [timer EXCEPT ![c] = NoTimer]
  /\ UNCHANGED <<load, now, col, wsConn, inChan, outChan, closeChan, isClosed, mutex,
                 lastHeartbeatTime, op, wmsg, late, histVars>>

writeLoop(c) ==
  \/ WriteLoopRecv(c)
  \/ WriteLoopTimer(c)
  \/ WriteLoopClosed(c)
  \/ removeAndClose(c, "writeLoop")

\* ------------------------------------------------------------ transport
\* the peer goes away or the network fails: reads and writes on the socket
\* fail from now on
PeerGone(c) ==
  /\ wsConn[c] = "open"
  /\ wsConn' = [wsConn EXCEPT ![c] = "broken"]
  /\ UNCHANGED <<load, now, col, inChan, outChan, closeChan, isClosed, mutex,
                 lastHeartbeatTime, timer, procVars, histVars>>

\* ------------------------------------------------------------ time
\* the clock advances
Tick ==
  /\ now < MaxTime
  /\ now' = now + 1
  /\ UNCHANGED <<load, col, connVars, procVars, histVars>>

\* ------------------------------------------------------------ specifications
Thread(c, t) ==
  \/ Open(c, t)
  \/ Close(c, t)
  \/ Receive(c, t)
  \/ Write(c, t)
  \/ removeAndClose(c, t)

Conn(c) ==
  \/ \E t \in Threads : Thread(c, t)
  \/ readLoop(c)
  \/ writeLoop(c)
  \/ PeerGone(c)

\* one connection, every operation, the clock free
Next ==
  \/ \E c \in Solo : Conn(c)
  \/ Tick

Spec == Init /\ [][Next]_vars

\* the clock stops here in the timed runs: one tick past two periods
TimedMaxTime == 2 * HeartbeatTime + 2

\* writeLoop has a timer event to handle, or is closing the connection after one
TimerWork(c) ==
  \/ pc[c]["writeLoop"] = "select" /\ TimerDue(c) /\ ~Closed(c)
  \/ pc[c]["writeLoop"] = "rc_lock" /\ ~Closed(c)

\* the clock advances only when no writeLoop has timer work to do: a timer
\* that is due is handled before the next tick
TickPrompt ==
  /\ now < TimedMaxTime
  /\ \A c \in Conns : ~TimerWork(c)
  /\ now' = now + 1
  /\ UNCHANGED <<load, col, connVars, procVars, histVars>>

\* one connection, every operation, timers handled on time
NextTimed ==
  \/ \E c \in Solo : Conn(c)
  \/ TickPrompt

SpecTimed == Init /\ [][NextTimed]_vars

\* ------------------------------------------------------------ reopening runs
\* the application may call Open again on a connection whose tasks stopped
InitReopen ==
  /\ Created
  /\ load = [frames |-> 1, writes |-> 1, closes |-> 1, opens |-> MaxOpens,
             absent |-> ErrNotExist]

SpecReopen == InitReopen /\ [][Next]_vars

\* ------------------------------------------------------------ dispatch runs
\* the messages a write task is given to dispatch in the dispatch runs
DispatchMsgs ==
  { WsMessage(tt, to, TextMessage, "m") :
      tt \in {ToAll, ToGroup, ToConn, ""}, to \in {"", "a", "b", "ghost", "g"} }

\* two opened connections, registered or not, each socket open, broken or
\* closed; the write task of the first has one message to dispatch
InitDispatch ==
  /\ load \in { [frames |-> 0, writes |-> 0, closes |-> 0, opens |-> 1, absent |-> e] :
                   e \in {ErrNotExist, "nil"} }
  /\ now = 1
  /\ col \in SUBSET Conns
  /\ wsConn \in [Conns -> {"open", "broken", "closed"}]
  /\ inChan = [c \in Conns |-> <<>>]
  /\ \E m \in DispatchMsgs :
       /\ outChan = [c \in Conns |-> IF c \in Solo THEN <<m>> ELSE <<>>]
       /\ enq = outChan
  /\ closeChan = [c \in Conns |-> IF wsConn[c] = "closed" THEN "closed" ELSE "open"]
  /\ isClosed = [c \in Conns |-> wsConn[c] = "closed"]
  /\ mutex = [c \in Conns |-> "free"]
  /\ lastHeartbeatTime = [c \in Conns |-> 0]
  /\ timer = [c \in Conns |-> now + GetHeartbeatTime]
  /\ pc = [c \in Conns |-> [p \in Procs |->
             CASE p \in Threads -> "idle"
               [] p = "readLoop" -> "read"
               [] p = "writeLoop" -> "select"]]
  /\ op = [c \in Conns |-> [t \in Threads |-> "none"]]
  /\ wmsg = [c \in Conns |-> [t \in Threads |-> NoMsg]]
  /\ late = [c \in Conns |-> [t \in Threads |-> FALSE]]
  /\ hist = [c \in Conns |->
               IF wsConn[c] = "closed"
                 THEN [HistInit EXCEPT !.opens = 1, !.lastInboundAt = 1, !.closes = 1,
                                       !.wsCloses = 1, !.rcCalls = 1, !.closeCalls = 1]
                 ELSE [HistInit EXCEPT !.opens = 1, !.lastInboundAt = 1]]
  /\ dispatched = [c \in Conns |-> <<>>]
  /\ framesRead = [c \in Conns |-> <<>>]
  /\ received = [c \in Conns |-> <<>>]
  /\ wire = [c \in Conns |-> <<>>]

\* the write task dispatches
NextDispatch == \E c \in Solo : WriteLoopRecv(c)

SpecDispatch == InitDispatch /\ [][NextDispatch]_vars

\* the Go scheduler runs a goroutine whose select has a ready case: a caller
\* inside Receive or Write returns when a case of its select stays ready
Fairness ==
  \A c \in Solo, t \in Threads :
    /\ WF_vars(ReceiveMsg(c, t) \/ ReceiveClosed(c, t))
    /\ WF_vars(WriteReturnsNil(c, t) \/ WriteReturnsClosed(c, t))

FairSpec == Init /\ [][Next]_vars /\ Fairness

\* ------------------------------------------------------------ timestamp runs
\* In these runs the two accesses to wc.lastHeartbeatTime take time: the
\* field is a time.Time, three words, stored by keepAlive (readLoop) and
\* loaded by isAlive (writeLoop) with plain accesses, neither under wc.mutex.

\* readLoop reads a frame; on a ping, isPing is about to call keepAlive
ReadFrameThenKeepAlive(c) ==
  /\ pc[c]["readLoop"] = "read"
  /\ wsConn[c] = "open"
  /\ Len(framesRead[c]) < load.frames
  /\ \E f \in Frames(Len(framesRead[c]) + 1) :
       /\ framesRead' = [framesRead EXCEPT ![c] = Append(@, f)]
       /\ SetPc(c, "readLoop", IF IsPingMsg(f.Data) THEN "isPing" ELSE "send")
  /\ hist' = [hist EXCEPT ![c].lastInboundAt = now]
  /\ UNCHANGED <<load, now, col, connVars, op, wmsg, late,
                 enq, dispatched, received, wire>>

\* keepAlive starts storing time.Now(); a load in progress is torn by it
keepAliveBegin(c) ==
  /\ pc[c]["readLoop"] = "isPing"
  /\ pc' = [pc EXCEPT ![c]["readLoop"] = "keepAlive",
                      ![c]["writeLoop"] = IF @ = "isAlive" THEN "isAlive_torn" ELSE @]
  /\ UNCHANGED <<load, now, col, connVars, op, wmsg, late, histVars>>

\* the store is complete; isPing goes on to Write the pong
keepAliveEnd(c) ==
  /\ pc[c]["readLoop"] = "keepAlive"
  /\ keepAlive(c)
  /\ SetPc(c, "readLoop", "pong")
  /\ UNCHANGED <<load, now, col, wsConn, inChan, outChan, closeChan, isClosed, mutex,
                 timer, op, wmsg, late, histVars>>

\* case <-timer.C: writeLoop is about to call isAlive
WriteLoopTimerThenIsAlive(c) ==
  /\ pc[c]["writeLoop"] = "select"
  /\ TimerDue(c)
  /\ SetPc(c, "writeLoop", "timer")
  /\ UNCHANGED <<load, now, col, connVars, op, wmsg, late, histVars>>

\* isAlive starts loading the field; a store in progress tears the load
isAliveBegin(c) ==
  /\ pc[c]["writeLoop"] = "timer"
  /\ SetPc(c, "writeLoop",
           IF pc[c]["readLoop"] = "keepAlive" THEN "isAlive_torn" ELSE "isAlive")
  /\ UNCHANGED <<load, now, col, connVars, op, wmsg, late, histVars>>

\* the load is complete and isAlive returns: what a torn load compares with
\* time.Now() is a mixture of two values, so either answer can come out
isAliveEnd(c) ==
  /\ pc[c]["writeLoop"] \in {"isAlive", "isAlive_torn"}
  /\ \E alive \in (IF pc[c]["writeLoop"] = "isAlive_torn" THEN BOOLEAN ELSE {isAlive(c)}) :
       IF ~alive
         THEN /\ RcEnter(c, "writeLoop", hist)
              /\ UNCHANGED timer
         ELSE /\ timer' = [timer EXCEPT ![c] = now + GetHeartbeatTime]
              /\ SetPc(c, "writeLoop", "select")
              /\ UNCHANGED <<hist, wsConn>>
  /\ UNCHANGED <<load, now, col, inChan, outChan, closeChan, isClosed, mutex,
                 lastHeartbeatTime, op, wmsg, late,
                 enq, dispatched, framesRead, received, wire>>

readLoopRace(c) ==
  \/ ReadFrameThenKeepAlive(c)
  \/ keepAliveBegin(c)
  \/ keepAliveEnd(c)
  \/ ReadError(c)
  \/ PongSend(c)
  \/ PongClosed(c)
  \/ ReadSend(c)
  \/ ReadSendClosed(c)
  \/ removeAndClose(c, "readLoop")

writeLoopRace(c) ==
  \/ WriteLoopRecv(c)
  \/ WriteLoopTimerThenIsAlive(c)
  \/ isAliveBegin(c)
  \/ isAliveEnd(c)
  \/ WriteLoopClosed(c)
  \/ removeAndClose(c, "writeLoop")

\* one peer frame, one Write, one Close
InitRace ==
  /\ Created
  /\ load = [frames |-> 1, writes |-> 1, closes |-> 1, opens |-> 1,
             absent |-> ErrNotExist]

NextRace ==
  \/ \E c \in Solo, t \in Threads : Thread(c, t)
  \/ \E c \in Solo : readLoopRace(c)
  \/ \E c \in Solo : writeLoopRace(c)
  \/ \E c \in Solo : PeerGone(c)
  \/ Tick

SpecRace == InitRace /\ [][NextRace]_vars

\* ------------------------------------------------------------ slow-write runs
\* In these runs conn.wsConn.WriteMessage takes time. Two connections are
\* open and registered, each writeLoop has one message to dispatch; a socket
\* whose peer has stopped reading is "stalled": with no write deadline set, a
\* WriteMessage on it returns only when the socket is closed.

\* writeLoop's position inside the loop of a push function: the connections
\* it has yet to write to, the first of them being written to now
WritingPc(rs) ==
  CASE rs = {"a", "b"} -> "write_ab"
    [] rs = {"a"} -> "write_a"
    [] rs = {"b"} -> "write_b"
    [] OTHER -> "select"

Pending(c) ==
  CASE pc[c]["writeLoop"] = "write_ab" -> {"a", "b"}
    [] pc[c]["writeLoop"] = "write_a" -> {"a"}
    [] pc[c]["writeLoop"] = "write_b" -> {"b"}
    [] OTHER -> {}

\* the connection whose WriteMessage c's writeLoop is inside
Current(c) == IF "a" \in Pending(c) THEN "a" ELSE "b"

\* case msg := <-wc.outChan: msgDispatch looks the connections up and calls
\* WriteMessage on the first
WriteLoopRecvBegin(c) ==
  /\ pc[c]["writeLoop"] = "select"
  /\ outChan[c] # <<>>
  /\ outChan' = [outChan EXCEPT ![c] = Tail(@)]
  /\ dispatched' = [dispatched EXCEPT ![c] = Append(@, Head(outChan[c]))]
  /\ SetPc(c, "writeLoop", WritingPc(Attempts(Head(outChan[c]))))
  /\ hist' = [hist EXCEPT ![c].owed = IF @ > 0 THEN @ - 1 ELSE 0]
  /\ UNCHANGED <<load, now, col, wsConn, inChan, closeChan, isClosed, mutex,
                 lastHeartbeatTime, timer, op, wmsg, late,
                 enq, framesRead, received, wire>>

\* WriteMessage returns, with the frame sent or with an error; the loop goes
\* on to the next connection, or msgDispatch returns to writeLoop's select
WriteMessageReturns(c) ==
  /\ Pending(c) # {}
  /\ wsConn[Current(c)] # "stalled"
  /\ WriteMessage({Current(c)}, Last(dispatched[c]))
  /\ SetPc(c, "writeLoop", WritingPc(Pending(c) \ {Current(c)}))
  /\ UNCHANGED <<load, now, col, connVars, op, wmsg, late,
                 hist, enq, dispatched, framesRead, received>>

\* two writeLoops are inside WriteMessage on one socket: the websocket
\* package may detect it and panic, which ends the program
ConcurrentWritePanics(c) ==
  /\ Pending(c) # {}
  /\ \E d \in Conns \ {c} : Pending(d) # {} /\ Current(d) = Current(c)
  /\ pc' = [d \in Conns |-> [q \in Procs |-> "panic"]]
  /\ UNCHANGED <<load, now, col, connVars, op, wmsg, late, histVars>>

\* the peer of c stops reading: writes on the socket no longer complete
PeerStalls(c) ==
  /\ wsConn[c] = "open"
  /\ wsConn' = [wsConn EXCEPT ![c] = "stalled"]
  /\ UNCHANGED <<load, now, col, inChan, outChan, closeChan, isClosed, mutex,
                 lastHeartbeatTime, timer, procVars, histVars>>

\* the messages the two write tasks are given in the slow-write runs
WriterMsgs ==
  { WsMessage(ToAll, "", TextMessage, "m"),
    WsMessage(ToGroup, "g", TextMessage, "m"),
    WsMessage(ToConn, "b", TextMessage, "m") }

\* both connections opened: registered, sockets open, tasks in their loops
InitWriters ==
  /\ load = [frames |-> 0, writes |-> 0, closes |-> 1, opens |-> 1,
             absent |-> ErrNotExist]
  /\ now = 1
  /\ col = Conns
  /\ wsConn = [c \in Conns |-> "open"]
  /\ inChan = [c \in Conns |-> <<>>]
  /\ outChan \in [Conns -> {<<m>> : m \in WriterMsgs}]
  /\ enq = outChan
  /\ closeChan = [c \in Conns |-> "open"]
  /\ isClosed = [c \in Conns |-> FALSE]
  /\ mutex = [c \in Conns |-> "free"]
  /\ lastHeartbeatTime = [c \in Conns |-> 0]
  /\ timer = [c \in Conns |-> now + GetHeartbeatTime]
  /\ pc = [c \in Conns |-> [p \in Procs |->
             CASE p \in Threads -> "idle"
               [] p = "readLoop" -> "read"
               [] p = "writeLoop" -> "select"]]
  /\ op = [c \in Conns |-> [t \in Threads |-> "none"]]
  /\ wmsg = [c \in Conns |-> [t \in Threads |-> NoMsg]]
  /\ late = [c \in Conns |-> [t \in Threads |-> FALSE]]
  /\ hist = [c \in Conns |-> [HistInit EXCEPT !.opens = 1, !.lastInboundAt = 1]]
  /\ dispatched = [c \in Conns |-> <<>>]
  /\ framesRead = [c \in Conns |-> <<>>]
  /\ received = [c \in Conns |-> <<>>]
  /\ wire = [c \in Conns |-> <<>>]

\* the write tasks dispatch, the handlers may call Close, the heartbeat runs;
\* the peers send nothing
NextWriters ==
  \/ \E c \in Conns : WriteLoopRecvBegin(c)
  \/ \E c \in Conns : WriteMessageReturns(c)
  \/ \E c \in Conns : ConcurrentWritePanics(c)
  \/ \E c \in Conns : WriteLoopTimer(c)
  \/ \E c \in Conns : WriteLoopClosed(c)
  \/ \E c \in Conns : ReadError(c)
  \/ \E c \in Conns : Close(c, "handler")
  \/ \E c \in Conns, p \in {"handler", "readLoop", "writeLoop"} : removeAndClose(c, p)
  \/ \E c \in Conns : PeerStalls(c)
  \/ Tick

SpecWriters == InitWriters /\ [][NextWriters]_vars

\* ------------------------------------------------------------ two-connection runs
\* both connections opened; the application of the first has filled its
\* outChan, the second has no traffic; the peers send nothing
InitPair ==
  /\ load = [frames |-> 0, writes |-> 1, closes |-> 1, opens |-> 1,
             absent |-> ErrNotExist]
  /\ now = 1
  /\ col = Conns
  /\ wsConn = [c \in Conns |-> "open"]
  /\ inChan = [c \in Conns |-> <<>>]
  /\ outChan = [c \in Conns |->
                  IF c \in Solo
                    THEN [i \in 1..QueueCap |-> WsMessage(ToConn, c, TextMessage, "m")]
                    ELSE <<>>]
  /\ enq = outChan
  /\ closeChan = [c \in Conns |-> "open"]
  /\ isClosed = [c \in Conns |-> FALSE]
  /\ mutex = [c \in Conns |-> "free"]
  /\ lastHeartbeatTime = [c \in Conns |-> 0]
  /\ timer = [c \in Conns |-> now + GetHeartbeatTime]
  /\ pc = [c \in Conns |-> [p \in Procs |->
             CASE p \in Threads -> "idle"
               [] p = "readLoop" -> "read"
               [] p = "writeLoop" -> "select"]]
  /\ op = [c \in Conns |-> [t \in Threads |-> "none"]]
  /\ wmsg = [c \in Conns |-> [t \in Threads |-> NoMsg]]
  /\ late = [c \in Conns |-> [t \in Threads |-> FALSE]]
  /\ hist = [c \in Conns |-> [HistInit EXCEPT !.opens = 1, !.lastInboundAt = 1]]
  /\ dispatched = [c \in Conns |-> <<>>]
  /\ framesRead = [c \in Conns |-> <<>>]
  /\ received = [c \in Conns |-> <<>>]
  /\ wire = [c \in Conns |-> <<>>]

\* the first connection has a handler in Receive or Close and a pusher in
\* Write or Close, the second a handler that may call Close; on both the
\* peer may go away, the heartbeat runs and the tasks do their work
NextPair ==
  \/ \E c \in Solo : ReceiveCall(c, "handler")
  \/ \E c \in Solo : ReceiveClosed(c, "handler")
  \/ \E c \in Solo : Write(c, "pusher")
  \/ \E c \in Solo : Close(c, "pusher")
  \/ \E c \in Conns : Close(c, "handler")
  \/ \E c \in Conns, p \in Procs : removeAndClose(c, p)
  \/ \E c \in Conns : ReadError(c)
  \/ \E c \in Conns : PeerGone(c)
  \/ \E c \in Conns : writeLoop(c)
  \/ Tick

SpecPair == InitPair /\ [][NextPair]_vars

\* a caller whose select has a ready case gets to run
PairFairness ==
  \A c \in Conns, t \in Threads :
    /\ WF_vars(ReceiveClosed(c, t))
    /\ WF_vars(WriteReturnsNil(c, t) \/ WriteReturnsClosed(c, t))

FairPairSpec == SpecPair /\ PairFairness

\* the Go scheduler runs every goroutine that can take a step: readLoop,
\* writeLoop, and whoever is inside removeAndClose with the mutex
TaskFairness ==
  \A c \in Solo :
    /\ WF_vars(readLoop(c))
    /\ WF_vars(writeLoop(c))
    /\ \A t \in Threads : WF_vars(removeAndClose(c, t))

FairTasksSpec == Init /\ [][Next]_vars /\ TaskFairness

\* ------------------------------------------------------------ properties
\* processes of c inside removeAndClose
InRemove(c) == Cardinality({p \in Procs : pc[c][p] \in {"rc_lock", "rc_flag"}})

\* C1: whatever the interleaving of Close calls, a read error in readLoop, a
\* heartbeat timeout in writeLoop and a failed Set in Open, closeChan is
\* closed at most once.
C1_CloseSignalAtMostOnce == \A c \in Conns : hist[c].closes <= 1

\* three teardowns have run to the end on one connection, one signal fired
C1_Witness ==
  \E c \in Conns : hist[c].closes = 1 /\ hist[c].dels >= 3 /\ InRemove(c) = 0

C3_ReceiveAfterCloseIsClosed ==
  [][\A c \in Conns, t \in Threads :
       pc[c][t] = "Receive" /\ late[c][t] /\ pc'[c][t] = "idle"
         => received'[c] = received[c]]_vars

\* C4: a Write that starts after a Close has returned returns ErrWsConnClose
\* and its message is not placed on outChan, whatever room outChan has.
C4_WriteAfterCloseIsClosed ==
  [][\A c \in Conns, t \in Threads :
       pc[c][t] = "Write" /\ late[c][t] /\ pc'[c][t] = "idle"
         => enq'[c] = enq[c]]_vars

\* C5: once closeChan is closed, a caller inside Receive or Write, whether
\* it was suspended before or called afterwards, eventually returns.
C5_CallersReturnAfterClose ==
  \A c \in Solo, t \in Threads :
    (Closed(c) /\ pc[c][t] \in {"Receive", "Write"}) ~> (pc[c][t] = "idle")

\* closed with inChan empty, outChan full, both tasks stopped, one caller
\* inside Receive and one inside Write
C5_Witness ==
  \E c \in Solo :
    /\ Closed(c)
    /\ inChan[c] = <<>> /\ Len(outChan[c]) = QueueCap
    /\ pc[c]["readLoop"] = "done" /\ pc[c]["writeLoop"] = "done"
    /\ pc[c]["handler"] = "Receive" /\ pc[c]["pusher"] = "Write"

\* C6: the messages writeLoop has handed to msgDispatch are at every moment
\* a prefix of the messages outChan accepted, in the order it accepted them
\* (from either Write caller and from isPing): nothing is reordered,
\* duplicated or skipped.
C6_DispatchedIsPrefixOfEnqueued ==
  \A c \in Conns : IsPrefix(dispatched[c], enq[c])

\* a pong reply and messages of two Write calls have all been dispatched
C6_Witness ==
  \E c \in Conns :
    /\ Len(dispatched[c]) >= 3
    /\ \E i \in 1..Len(dispatched[c]) : dispatched[c][i] = PongMessage(c)
    /\ hist[c].writeCalls = 2

\* C7 as stated: a message that was on outChan when Close was called has
\* been dispatched by the time writeLoop has stopped.
C7_NothingOwedWhenWriterStops ==
  \A c \in Conns : pc[c]["writeLoop"] = "done" => hist[c].owed = 0

\* C7, amended: the accepted messages are, in order, the dispatched ones
\* followed by those still on outChan, and writeLoop stops only once the
\* close signal has fired; what is queued at that moment may stay there.
C7_QueuedUntilDispatchedOrClosed ==
  \A c \in Conns :
    /\ enq[c] = dispatched[c] \o outChan[c]
    /\ pc[c]["writeLoop"] = "done" => Closed(c)
    /\ hist[c].owed <= Len(outChan[c])

\* writes accepted before Close: one was dispatched, one is left on outChan
\* after writeLoop has stopped
C7_Witness ==
  \E c \in Conns :
    /\ pc[c]["writeLoop"] = "done"
    /\ hist[c].owed = 1
    /\ Len(dispatched[c]) >= 1
    /\ Len(outChan[c]) >= 1

\* the messages readLoop builds from the frames that are not pings
RECURSIVE NonProbe(_)
NonProbe(fs) ==
  IF fs = <<>> THEN <<>>
  ELSE IF IsPingMsg(Head(fs).Data) THEN NonProbe(Tail(fs))
       ELSE <<InMessage(Head(fs))>> \o NonProbe(Tail(fs))

\* the ping frames of a sequence of frames
Pings(fs) == SelectSeq(fs, LAMBDA f : IsPingMsg(f.Data))

\* C8: what Receive has returned, followed by what inChan holds, is a prefix
\* of the non-ping frames read from the socket, in arrival order; no ping is
\* on inChan or among the messages Receive returned.
C8_ReceivedIsPrefixOfNonProbeFrames ==
  \A c \in Conns :
    /\ IsPrefix(received[c] \o inChan[c], NonProbe(framesRead[c]))
    /\ \A i \in 1..Len(inChan[c]) : ~IsPingMsg(inChan[c][i].Data)
    /\ \A i \in 1..Len(received[c]) : ~IsPingMsg(received[c][i].Data)

\* two data frames around a ping have been returned by Receive
C8_Witness ==
  \E c \in Conns :
    /\ Len(received[c]) = 2
    /\ Len(framesRead[c]) = 3
    /\ IsPingMsg(framesRead[c][2].Data)

\* the pong replies among the messages outChan accepted
Pongs(c) == SelectSeq(enq[c], LAMBDA m : m.Data = GetPongMsg)

\* isPing is offering a reply to outChan
PongPending(c) == IF pc[c]["readLoop"] = "pong" THEN 1 ELSE 0

C10_Running(c) == pc[c]["writeLoop"] \in {"select", "rc_lock"} /\ ~Closed(c)

C10_SilenceBound ==
  \A c \in Conns :
    C10_Running(c) =>
      /\ now - hist[c].lastInboundAt <= 2 * GetHeartbeatTime
      /\ framesRead[c] = <<>> => now - hist[c].lastInboundAt <= GetHeartbeatTime

C10_ReceiveSeesClose ==
  \A c \in Conns, t \in Threads :
    pc[c][t] = "Receive" /\ pc'[c][t] = "idle" /\ inChan[c] = <<>>
      => Closed(c) /\ received'[c] = received[c]

C11_OpenReturn ==
  \A c \in Conns, t \in Threads :
    op[c][t] = "Open" /\ op'[c][t] = "none" =>
      \/ /\ pc[c][t] = "open_set"
         /\ c \in col'
         /\ pc'[c]["readLoop"] = "read" /\ pc'[c]["writeLoop"] = "select"
      \/ /\ pc[c][t] \in {"rc_lock", "rc_flag"}
         /\ wsConn'[c] = "closed" /\ closeChan'[c] = "closed" /\ isClosed'[c]
         /\ c \notin col'
         /\ \A k \in Tasks : pc'[c][k] = "none"

C11_FailedSetTearsDown == [][C11_OpenReturn]_vars

\* Open has returned from a failed Set: one teardown, no Close call, no task
C11_Witness ==
  \E c \in Conns :
    /\ hist[c].opens = 1 /\ hist[c].closeCalls = 0 /\ hist[c].rcCalls = 1
    /\ pc[c]["handler"] = "idle"
    /\ \A k \in Tasks : pc[c][k] = "none"
    /\ Closed(c) /\ wsConn[c] = "closed" /\ c \notin col

\* C12: a read error is handled inside readLoop. While readLoop is in
\* removeAndClose and after it has stopped it reads no frame and puts nothing
\* on inChan or outChan; when it comes back from removeAndClose the socket is
\* closed, closeChan is closed and the id is out of the Collection; a stopped
\* readLoop means closeChan is closed, which every later Receive and Write
\* finds; and a Receive returns without a message only for a closed closeChan.
C12_ReaderStopped ==
  \A c \in Conns : pc[c]["readLoop"] = "done" => Closed(c) /\ wsConn[c] = "closed"

C12_ReaderTeardown ==
  \A c \in Conns :
    /\ pc[c]["readLoop"] \in {"rc_lock", "rc_flag", "done"} =>
         /\ framesRead'[c] = framesRead[c]
         /\ Len(inChan'[c]) <= Len(inChan[c])
         /\ Len(Pongs(c)') = Len(Pongs(c))
    /\ pc[c]["readLoop"] \in {"rc_lock", "rc_flag"} /\ pc'[c]["readLoop"] = "done" =>
         closeChan'[c] = "closed" /\ isClosed'[c] /\ wsConn'[c] = "closed" /\ c \notin col'
    /\ \A t \in Threads :
         pc[c][t] = "Receive" /\ pc'[c][t] = "idle" /\ received'[c] = received[c]
           => Closed(c)

C13_Step(c) == dispatched'[c] # dispatched[c]

C13_WriteFailureTriggersClose ==
  [][\A c \in Conns :
       C13_Step(c) =>
         \A r \in Attempts(Last(dispatched'[c])) :
           wsConn[r] = "broken" => hist'[r].rcCalls > hist[r].rcCalls]_vars

\* the message a step of writeLoop hands to msgDispatch
C14_Msg(c) == Last(dispatched'[c])

\* C14: dispatching a ToConn message with an empty To makes pushConn return
\* ErrIdEmpty, without a Get on the Collection and without a frame written
\* on any socket.
C14_EmptyTargetRejected ==
  [][\A c \in Conns :
       C13_Step(c) /\ C14_Msg(c).ToType = ToConn /\ C14_Msg(c).To = "" =>
         /\ pushConnErr(C14_Msg(c)) = ErrIdEmpty
         /\ pushConnLookups(C14_Msg(c)) = {}
         /\ wire' = wire]_vars

\* a ToConn message with an empty To was dispatched while both connections
\* were registered with open sockets, and nothing was written
C14_Witness ==
  \E c \in Conns :
    /\ Len(dispatched[c]) = 1
    /\ dispatched[c][1].ToType = ToConn /\ dispatched[c][1].To = ""
    /\ col = Conns /\ \A r \in Conns : wsConn[r] = "open" /\ wire[r] = <<>>

\* C15: dispatching a ToConn message to a non-empty id the Collection does
\* not hold makes pushConn return an error, and writes no frame on any socket.
C15_AbsentTargetFails ==
  [][\A c \in Conns :
       C13_Step(c) /\ C14_Msg(c).ToType = ToConn /\ C14_Msg(c).To # ""
                   /\ Get(C14_Msg(c).To) = "absent" =>
         /\ pushConnErr(C14_Msg(c)) # "nil"
         /\ wire' = wire]_vars

\* C16: when pushConn fails for a dispatched ToConn message, msgDispatch
\* returns an error to writeLoop.
C16_DirectFailureSurfaced ==
  [][\A c \in Conns :
       C13_Step(c) /\ C14_Msg(c).ToType = ToConn /\ pushConnErr(C14_Msg(c)) # "nil" =>
         msgDispatchErr(C14_Msg(c)) # "nil"]_vars

\* the frame WriteMessage sends for a message
C17_Frame(msg) == [MessageType |-> msg.MessageType, Data |-> msg.Data]

\* the connections pushAll or pushGroup resolves for a message
C17_Resolved(msg) == IF msg.ToType = ToAll THEN GetAll ELSE GetGroup(msg.To)

\* C17: dispatching a ToAll or ToGroup message writes exactly one frame, with
\* the message's type and payload, on every resolved connection whose socket
\* is open, whether or not the write on another resolved connection fails;
\* the others get nothing, and pushAll and pushGroup return nil.
C17_FanOutGoesOn ==
  [][\A c \in Conns :
       C13_Step(c) /\ C14_Msg(c).ToType \in {ToAll, ToGroup} =>
         /\ \A r \in Conns :
              wire'[r] = IF r \in C17_Resolved(C14_Msg(c)) /\ wsConn[r] = "open"
                           THEN Append(wire[r], C17_Frame(C14_Msg(c)))
                           ELSE wire[r]
         /\ pushAllErr(C14_Msg(c)) = "nil" /\ pushGroupErr(C14_Msg(c)) = "nil"
         /\ msgDispatchErr(C14_Msg(c)) = "nil"]_vars

\* a group message was dispatched to two registered connections: the write
\* on the broken one failed and the other one got its frame
C17_Witness ==
  \E c \in Conns, r \in Conns :
    /\ Len(dispatched[c]) = 1 /\ dispatched[c][1].ToType = ToGroup
    /\ col = Conns /\ r # c
    /\ wsConn[c] = "broken" /\ wire[c] = <<>>
    /\ wsConn[r] = "open" /\ wire[r] = <<C17_Frame(dispatched[c][1])>>

\* C18: once removeAndClose has run on a connection (isClosed is set), the
\* connection is never again registered in the Collection with an open
\* socket and a read task reading from it.
C18_ClosedIsTerminal ==
  \A c \in Conns :
    isClosed[c] =>
      ~(c \in col /\ wsConn[c] = "open" /\ pc[c]["readLoop"] \in {"read", "pong", "send"})

\* C19: inChan and outChan never hold more than their capacity. A producer
\* that finds its queue full and closeChan open stays where it is, a Write
\* caller or isPing's Write on outChan and readLoop on inChan: in that step
\* nothing is added to the queue, and the queue loses at most its head, to
\* the consumer. Nothing is dropped: the frame a waiting readLoop holds
\* follows what inChan holds and Receive returned.
C19_Capacity ==
  \A c \in Conns :
    /\ Len(inChan[c]) <= QueueCap /\ Len(outChan[c]) <= QueueCap
    /\ pc[c]["readLoop"] = "send" =>
         NonProbe(framesRead[c]) =
           received[c] \o inChan[c] \o <<InMessage(Last(framesRead[c]))>>

C19_OutFull(c) == wsConn[c] # "nil" /\ Len(outChan[c]) = QueueCap /\ ~Closed(c)

C19_InFull(c) == Len(inChan[c]) = QueueCap /\ ~Closed(c)

C19_Suspended ==
  \A c \in Conns :
    /\ C19_OutFull(c) =>
         /\ \A t \in Threads :
              pc[c][t] = "Write" => pc'[c][t] = "Write" /\ wmsg'[c][t] = wmsg[c][t]
         /\ pc[c]["readLoop"] = "pong" => pc'[c]["readLoop"] = "pong"
         /\ enq'[c] = enq[c]
         /\ outChan'[c] \in {outChan[c], Tail(outChan[c])}
    /\ C19_InFull(c) =>
         /\ pc[c]["readLoop"] = "send" =>
              pc'[c]["readLoop"] = "send" /\ framesRead'[c] = framesRead[c]
         /\ inChan'[c] \in {inChan[c], Tail(inChan[c])}

C19_BoundedQueuesBlockProducers == []C19_Capacity /\ [][C19_Suspended]_vars

\* readLoop waits with a third frame for room on a full inChan
C19_Witness ==
  \E c \in Conns :
    /\ C19_InFull(c) /\ pc[c]["readLoop"] = "send"
    /\ Len(framesRead[c]) = QueueCap + 1

\* C20: a Write that is waiting on a full outChan and resumes with closeChan
\* closed and outChan still full returns without putting its message on
\* outChan; as only messages outChan accepted are dispatched, that message is
\* never handed to msgDispatch.
C20_Accepted ==
  \A c \in Conns :
    \A i \in 1..Len(dispatched[c]) : \E j \in 1..Len(enq[c]) : enq[c][j] = dispatched[c][i]

C20_Resume ==
  \A c \in Conns, t \in Threads :
    /\ pc[c][t] = "Write" /\ Len(outChan[c]) = QueueCap /\ Closed(c)
    /\ pc'[c][t] = "idle"
    => /\ enq'[c] = enq[c] /\ outChan'[c] = outChan[c]
       /\ \A j \in 1..Len(enq'[c]) : enq'[c][j] # wmsg[c][t]

C20_SuspendedWriteSeesClose == []C20_Accepted /\ [][C20_Resume]_vars

\* both Write calls are over, outChan is still full of the reply and the
\* first message, nothing was dispatched: the second Write came back closed
C20_Witness ==
  \E c \in Conns :
    /\ Closed(c) /\ Len(outChan[c]) = QueueCap /\ dispatched[c] = <<>>
    /\ hist[c].writeCalls = QueueCap /\ Len(Pongs(c)) = 1
    /\ \A t \in Threads : pc[c][t] = "idle"

\* C23: when writeLoop takes a timer fire, it enters removeAndClose exactly
\* when now - lastHeartbeatTime is greater than GetHeartbeatTime; otherwise
\* closeChan is left alone, writeLoop stays in its loop and the timer is set
\* to fire one period from now. A connection whose last ping is no older than
\* a period at the fire is therefore not closed by it.
C23_TimerStep ==
  \A c \in Conns :
    pc[c]["writeLoop"] = "select" =>
      /\ pc'[c]["writeLoop"] = "rc_lock" =>
           TimerDue(c) /\ now - lastHeartbeatTime[c] > GetHeartbeatTime
      /\ (pc'[c]["writeLoop"] = "select" /\ timer'[c] # timer[c]) =>
           /\ TimerDue(c) /\ now - lastHeartbeatTime[c] <= GetHeartbeatTime
           /\ timer'[c] = now + GetHeartbeatTime
           /\ closeChan'[c] = closeChan[c] /\ wsConn'[c] = wsConn[c]

C23_HeartbeatDecision == [][C23_TimerStep]_vars

\* the timer fired exactly one period after the last ping and was rearmed
C23_Witness ==
  \E c \in Conns :
    /\ pc[c]["writeLoop"] = "select" /\ ~Closed(c)
    /\ Len(Pings(framesRead[c])) >= 1
    /\ now - lastHeartbeatTime[c] = GetHeartbeatTime
    /\ timer[c] = now + GetHeartbeatTime

\* C25: a task that has left its loop implies closeChan is closed, for
\* readLoop and for writeLoop.
C25_TasksOutliveOpen ==
  \A c \in Conns, k \in Tasks : pc[c][k] = "done" => Closed(c)

\* the heartbeat closed the connection and both tasks have stopped, with no
\* Close call
C25_Witness ==
  \E c \in Conns :
    /\ hist[c].closeCalls = 0 /\ Closed(c)
    /\ \A k \in Tasks : pc[c][k] = "done"

\* C26: dispatching a ToAll message writes one frame with the message's type
\* and payload on the socket of every connection GetAll returns, when that
\* socket is open, and on no other socket; the issuer is treated like any
\* other connection, it gets the frame exactly when it is registered.
C26_Step(c) ==
  C13_Step(c) /\ C14_Msg(c).ToType = ToAll =>
    /\ \A r \in Conns \ GetAll : wire'[r] = wire[r]
    /\ \A r \in GetAll :
         wire'[r] = IF wsConn[r] = "open"
                      THEN Append(wire[r], C17_Frame(C14_Msg(c)))
                      ELSE wire[r]
    /\ (c \in GetAll /\ wsConn[c] = "open") <=> wire'[c] # wire[c]

C26_BroadcastReachesRegistered == [][\A c \in Conns : C26_Step(c)]_vars

\* a broadcast by an unregistered issuer with an open socket reached the
\* other connection only
C26_Witness ==
  \E c \in Conns, r \in Conns :
    /\ Len(dispatched[c]) = 1 /\ dispatched[c][1].ToType = ToAll
    /\ col = {r} /\ r # c /\ wsConn[c] = "open" /\ wsConn[r] = "open"
    /\ wire[c] = <<>> /\ wire[r] = <<C17_Frame(dispatched[c][1])>>

\* C29: reading a frame that is not a ping leaves lastHeartbeatTime as it
\* was, and a timer fire rearms the timer only when a ping has been read; so
\* with timers handled on time a connection that has read no ping is closed
\* at its first timer fire, and one that has is closed within two periods of
\* the last ping, however recently other frames came.
C29_Silence ==
  \A c \in Conns :
    C10_Running(c) =>
      /\ pc[c]["writeLoop"] = "select" => now <= timer[c]
      /\ Pings(framesRead[c]) = <<>> =>
           lastHeartbeatTime[c] = 0
      /\ Pings(framesRead[c]) # <<>> =>
           now - lastHeartbeatTime[c] <= 2 * GetHeartbeatTime

C29_Step ==
  \A c \in Conns :
    /\ (framesRead'[c] # framesRead[c] /\ ~IsPingMsg(Last(framesRead'[c]).Data))
         => lastHeartbeatTime'[c] = lastHeartbeatTime[c]
    /\ (pc[c]["writeLoop"] = "select" /\ TimerDue(c) /\ Pings(framesRead[c]) = <<>>
          /\ pc'[c]["writeLoop"] # pc[c]["writeLoop"] /\ ~Closed(c))
         => pc'[c]["writeLoop"] = "rc_lock"
    /\ (pc[c]["writeLoop"] = "select" /\ pc'[c]["writeLoop"] = "select"
          /\ timer'[c] # timer[c])
         => Pings(framesRead[c]) # <<>>

C29_OnlyProbesKeepAlive == []C29_Silence /\ [][C29_Step]_vars

\* the heartbeat alone closed a connection that had just read a frame, none
\* of its frames being a ping
C29_Witness ==
  \E c \in Conns :
    /\ Closed(c) /\ hist[c].closeCalls = 0 /\ hist[c].rcCalls = 1
    /\ pc[c]["writeLoop"] = "done" /\ pc[c]["readLoop"] \in {"read", "send"}
    /\ Len(framesRead[c]) >= 1 /\ Pings(framesRead[c]) = <<>>
    /\ hist[c].lastInboundAt = now

\* C30: dispatching a message whose ToType is none of ToAll, ToGroup and
\* ToConn takes it off outChan and does nothing else: no Collection method
\* is called, no frame is written, msgDispatch returns nil.
C30_Step(c) ==
  C13_Step(c) /\ C14_Msg(c).ToType \notin {ToAll, ToGroup, ToConn} =>
    /\ outChan[c] # <<>> /\ C14_Msg(c) = Head(outChan[c])
    /\ outChan'[c] = Tail(outChan[c])
    /\ msgDispatchLookups(C14_Msg(c)) = {} /\ Attempts(C14_Msg(c)) = {}
    /\ wire' = wire
    /\ msgDispatchErr(C14_Msg(c)) = "nil"

C22_TimestampAccessesNeverOverlap ==
  \A c \in Conns :
    ~(pc[c]["readLoop"] = "keepAlive" /\ pc[c]["writeLoop"] = "isAlive_torn")

\* C21 as stated: a writeLoop that is inside WriteMessage on a stalled socket
\* of another connection still reacts to its own closeChan: it is never held
\* in that call once its closeChan is closed.
C21_WriterReactsDuringStalledWrite ==
  \A c \in Conns :
    (Pending(c) # {} /\ Current(c) # c /\ wsConn[Current(c)] = "stalled")
      => ~Closed(c)

\* C28 as stated: no two writeLoops are inside WriteMessage on the same
\* socket at the same time.
C28_OneWriterPerSocket ==
  \A c \in Conns, d \in Conns :
    (c # d /\ Pending(c) # {} /\ Pending(d) # {}) => Current(c) # Current(d)

\* C27: for two opened connections c and d, no step of c's teardown (Close call,
\* read error or heartbeat timeout, through removeAndClose) changes d's
\* isClosed, closeChan, inChan, outChan or lastHeartbeatTime; and whatever
\* was closed before, once a Close on d has returned d's own closeChan is
\* closed, exactly once, and d's callers inside Receive and Write return.
C27_TeardownStep(c) ==
  \/ hist'[c].rcCalls # hist[c].rcCalls
  \/ hist'[c].dels # hist[c].dels
  \/ closeChan'[c] # closeChan[c]
  \/ isClosed'[c] # isClosed[c]

C27_Frame ==
  \A c \in Conns, d \in Conns :
    (c # d /\ C27_TeardownStep(c)) =>
      /\ isClosed'[d] = isClosed[d] /\ closeChan'[d] = closeChan[d]
      /\ inChan'[d] = inChan[d] /\ outChan'[d] = outChan[d]
      /\ lastHeartbeatTime'[d] = lastHeartbeatTime[d]

C27_OwnSignal ==
  \A d \in Conns :
    CloseDone(d) => Closed(d) /\ isClosed[d] /\ hist[d].closes = 1

C27_Release ==
  \A d \in Conns, t \in Threads :
    (Closed(d) /\ pc[d][t] \in {"Receive", "Write"}) ~> (pc[d][t] = "idle")

C31_CloseOnCreatedCompletes ==
  \A c \in Conns :
    (wsConn[c] = "nil" /\ hist[c].closeCalls > 0)
      => \A p \in Procs : pc[c][p] # "panic"

\* C32: whenever wc.mutex is free, isClosed is TRUE exactly when closeChan is
\* closed; and isClosed, once TRUE, stays TRUE.
C32_FlagMatchesSignal ==
  \A c \in Conns : mutex[c] = "free" => (isClosed[c] <=> Closed(c))

C32_FlagStays ==
  \A c \in Conns : isClosed[c] => isClosed'[c]

C32_ClosedFlagTracksSignal == []C32_FlagMatchesSignal /\ [][C32_FlagStays]_vars

\* a second teardown has run through on a closed connection and the mutex
\* is free again: the flag is still set and the signal was fired once
C32_Witness ==
  \E c \in Conns :
    /\ mutex[c] = "free" /\ isClosed[c] /\ Closed(c)
    /\ hist[c].dels >= 2 /\ hist[c].closes = 1 /\ InRemove(c) = 0

====
